---- MODULE Spec2Model ----
(***************************************************************************)
(* Model of the incremental paper-tracking pipeline of secnews:            *)
(*   utils_db.py      PaperDB (record store)                               *)
(*   utils_search.py  search cache, execute_searches, feed ingestion       *)
(*   utils_papers.py  download_papers / download_paper / assemble_records  *)
(*   utils_summary.py summarize_records and the two classification passes  *)
(*                                                                         *)
(* Strings the code takes apart (entry ids, urls, file names) are          *)
(* sequences of atoms, an atom being a piece the code never splits:        *)
(*   "http://arxiv.org/abs/2601.00001v1" is                                *)
(*   <<"http://arxiv.org", "/", "abs", "/", "2601.00001v1">>.              *)
(* A timestamp is [local |-> hour, off |-> UTC offset]; the normalized     *)
(* form "...Z" is the one with off = 0.                                    *)
(***************************************************************************)
EXTENDS Integers, Sequences, FiniteSets, TLC

VARIABLES
    clock,      \* wall clock (hours), read by execute_searches as `now`
    cacheFile,  \* search_state.json: query -> completion timestamp
    es,         \* the execute_searches call in progress (its locals)
    db,         \* PaperDB._data, the in-memory records
    dbFile,     \* the persisted snapshot PaperDB._save wrote
    disk,       \* file names present under paper_path
    sm,         \* the summarize_records call in progress (its locals)
    ev          \* the last step taken and what it observed

vars == <<clock, cacheFile, es, db, dbFile, disk, sm, ev>>

(***************************************************************************)
(* Bounds                                                                  *)
(***************************************************************************)
MaxClock == 2
MaxParams == 2
MaxFeeds == 2
MaxRecords == 3
MaxAuthors == 3

(***************************************************************************)
(* String helpers (str.replace, str.split, str.endswith on atom sequences) *)
(***************************************************************************)
str_replace(s, a, b) == [i \in 1..Len(s) |-> IF s[i] = a THEN b ELSE s[i]]

\* positions p such that pat occurs in s at p..p+Len(pat)-1
Occurrences(s, pat) ==
    {p \in 1..(Len(s) - Len(pat) + 1) :
        \A k \in 1..Len(pat) : s[p + k - 1] = pat[k]}

Max(S) == CHOOSE x \in S : \A y \in S : y <= x
Min(S) == CHOOSE x \in S : \A y \in S : x <= y

\* s.split(pat)[-1]
split_last(s, pat) ==
    IF Occurrences(s, pat) = {} THEN s
    ELSE SubSeq(s, Max(Occurrences(s, pat)) + Len(pat), Len(s))

endswith(s, a) == Len(s) > 0 /\ s[Len(s)] = a

(***************************************************************************)
(* Timestamps                                                              *)
(***************************************************************************)
\* _normalize_date: parse, convert to UTC, format with the Z suffix
normalize_date_raw(ts) == ts

normalize_date(ts) == [local |-> ts.local - ts.off, off |-> 0]

\* Python's >= on two timestamp strings: the date-time part first, then the
\* suffix, where "Z" sorts after every "+hh:00"
suffix_rank(off) == IF off = 0 THEN 100 ELSE off

str_ge(a, b) ==
    \/ a.local > b.local
    \/ (a.local = b.local /\ suffix_rank(a.off) >= suffix_rank(b.off))

Z(h) == [local |-> h, off |-> 0]

(***************************************************************************)
(* Feed entries the search source can return                               *)
(***************************************************************************)
E1 == [id |-> <<"http://arxiv.org", "/", "abs", "/", "2601.00001v1">>,
       published |-> [local |-> 3, off |-> 1],
       title |-> "Alpha",
       authors |-> << <<"Alice", "Smith">>, <<"Bob", "Jones">> >>]
E2 == [id |-> <<"http://arxiv.org", "/", "abs", "/", "2601.00002v1">>,
       published |-> [local |-> 1, off |-> 0],
       title |-> "Beta",
       authors |-> <<>>]
\* the same paper id under another scheme: another url, the same record id
E3 == [id |-> <<"https://arxiv.org", "/", "abs", "/", "2601.00001v1">>,
       published |-> [local |-> 2, off |-> 0],
       title |-> "Alpha again",
       authors |-> << <<"Alice", "Smith">> >>]

EntryPool == {E1, E2, E3}

\* feedparser.parse(response).entries of the payloads ingestion is given
FeedPool == {<<E1, E2>>, <<E3, E1>>, <<E2, E2>>}

Windows == {Z(1), Z(2)}

(***************************************************************************)
(* PaperDB                                                                 *)
(***************************************************************************)
SummaryKeys == {"points", "one_liner", "emoji", "tag", "affiliations",
                "interest_score"}
ResetKeysNoCascade == SummaryKeys
ResetKeysKeepProjects == SummaryKeys \cup {"relevant"}

\* line 65: the keys reset_summarized pops
ResetKeys == SummaryKeys \cup {"relevant", "projects"}

Has(r, k) == k \in DOMAIN r

\* dict.update
Merge(r, fields) ==
    [k \in (DOMAIN r) \cup (DOMAIN fields) |->
        IF k \in DOMAIN fields THEN fields[k] ELSE r[k]]

\* dict.pop(key, None) for every key of keys
PopAll(r, keys) == [k \in (DOMAIN r) \ keys |-> r[k]]

has_url_unchecked(data, url) == FALSE

has_url(data, url) == \E i \in DOMAIN data : data[i].url = url

\* insert: the record with published normalized, appended
insert(data, record) ==
    Append(data, [record EXCEPT !.published = normalize_date(@)])

\* the record update() reaches: the first one with that id (0: none)
update_target(data, paper_id) ==
    IF \E i \in DOMAIN data : data[i].id = paper_id
    THEN Min({i \in DOMAIN data : data[i].id = paper_id})
    ELSE 0

update_all(data, paper_id, fields) ==
    [i \in DOMAIN data |->
        IF data[i].id = paper_id THEN Merge(data[i], fields) ELSE data[i]]

update(data, paper_id, fields) ==
    IF update_target(data, paper_id) = 0 THEN data
    ELSE [data EXCEPT ![update_target(data, paper_id)] = Merge(@, fields)]

find_match_any_state(r, published_gte, summarized) ==
    published_gte # <<>> => str_ge(r.published, published_gte[1])

find_match_strict(r, published_gte, summarized) ==
    /\ (published_gte # <<>> =>
            (str_ge(r.published, published_gte[1])
             /\ r.published # published_gte[1]))
    /\ (summarized # <<>> =>
            (Has(r, "summarized") /\ r.summarized = summarized[1]))

\* find: the positions of the matching records, in storage order
\* (an argument is <<>> for None and <<v>> for the value v)
find_match(r, published_gte, summarized) ==
    /\ (published_gte # <<>> => str_ge(r.published, published_gte[1]))
    /\ (summarized # <<>> =>
            (Has(r, "summarized") /\ r.summarized = summarized[1]))

Range(s) == {s[k] : k \in DOMAIN s}

SeqOfSet(S) ==
    LET RECURSIVE build(_)
        build(T) == IF T = {} THEN <<>>
                    ELSE <<Min(T)>> \o build(T \ {Min(T)})
    IN build(S)

find(data, published_gte, summarized) ==
    SeqOfSet({i \in DOMAIN data :
                find_match(data[i], published_gte, summarized)})

reset_hits_no_window(r, published_gte) ==
    Has(r, "summarized") /\ r.summarized

\* reset_summarized
reset_hits(r, published_gte) ==
    str_ge(r.published, published_gte) /\ Has(r, "summarized") /\ r.summarized

reset_record_flag_only(r) == [r EXCEPT !.summarized = FALSE]

reset_record(r) == PopAll([r EXCEPT !.summarized = FALSE], ResetKeys)

reset_summarized(data, published_gte) ==
    [i \in DOMAIN data |->
        IF reset_hits(data[i], published_gte) THEN reset_record(data[i])
        ELSE data[i]]

reset_count(data, published_gte) ==
    Cardinality({i \in DOMAIN data : reset_hits(data[i], published_gte)})

reset_writes_none(data, published_gte) == 0

\* lines 68-69: the number of times reset_summarized writes the file
reset_writes(data, published_gte) ==
    IF reset_count(data, published_gte) > 0 THEN 1 ELSE 0

(***************************************************************************)
(* Feed ingestion                                                          *)
(***************************************************************************)
\* the record process_feed builds for one feed entry
feed_record(entry) ==
    [id |-> split_last(entry.id, <<"/", "abs", "/">>),
     url |-> str_replace(entry.id, "abs", "pdf") \o <<".pdf">>,
     published |-> entry.published,
     title |-> entry.title,
     authors |-> entry.authors,
     downloaded |-> FALSE,
     summarized |-> FALSE]

RECURSIVE process_feed_overwrite(_, _)
process_feed_overwrite(entries, data) ==
    IF entries = <<>> THEN data
    ELSE LET obj == feed_record(Head(entries))
         IN process_feed_overwrite(Tail(entries),
                IF has_url(data, obj.url)
                THEN [i \in DOMAIN data |->
                        IF data[i].url = obj.url THEN obj ELSE data[i]]
                ELSE insert(data, obj))

\* process_feed: insert every entry whose url the store does not hold yet
RECURSIVE process_feed(_, _)
process_feed(entries, data) ==
    IF entries = <<>> THEN data
    ELSE LET obj == feed_record(Head(entries))
         IN process_feed(Tail(entries),
                IF has_url(data, obj.url) THEN data ELSE insert(data, obj))

RECURSIVE assemble_feeds(_, _)
assemble_feeds(feeds, data) ==
    IF feeds = <<>> THEN data
    ELSE assemble_feeds(Tail(feeds), process_feed(Head(feeds), data))

(***************************************************************************)
(* Search source and search cache                                          *)
(***************************************************************************)
Queries == {"q1", "q2"}

\* what the search source holds for a query
source(q) == IF q = "q1" THEN <<E1, E2>> ELSE <<E3, E1>>

\* entries of SEARCHES: a query string, a start offset, a page size
ParamPool == {[search_query |-> "q1", start |-> 0, max_results |-> 1],
              [search_query |-> "q2", start |-> 0, max_results |-> 2]}

RECURSIVE SeqsUpTo(_, _)
SeqsUpTo(S, n) ==
    IF n = 0 THEN {<<>>}
    ELSE SeqsUpTo(S, n - 1) \cup
         {Append(t, x) : t \in SeqsUpTo(S, n - 1), x \in S}

ParamLists == SeqsUpTo(ParamPool, MaxParams) \ {<<>>}

CacheHours == {0, 1}

\* the feed the source returns for one request
response(q, start, max_results) ==
    LET all == source(q)
        last == IF start + max_results < Len(all) THEN start + max_results
                ELSE Len(all)
    IN [q |-> q,
        totalresults |-> Len(all),
        startindex |-> start,
        entries |-> SubSeq(all, start + 1, last)]

cache_fresh_forced(state, search_query, cutoff, force) ==
    search_query \in DOMAIN state /\ str_ge(state[search_query], cutoff)

cache_fresh_strict(state, search_query, cutoff, force) ==
    /\ ~force
    /\ search_query \in DOMAIN state
    /\ ~str_ge(cutoff, state[search_query])

\* line 48: the test that skips a query
cache_fresh(state, search_query, cutoff, force) ==
    /\ ~force
    /\ search_query \in DOMAIN state
    /\ str_ge(state[search_query], cutoff)

page_is_last_total_only(feed, max_results) ==
    feed.startindex + Len(feed.entries) >= feed.totalresults

page_is_last_always(feed, max_results) == TRUE

\* lines 84-86: the test that ends the pagination of a query
page_is_last(feed, max_results) ==
    \/ Len(feed.entries) < max_results
    \/ feed.startindex + Len(feed.entries) >= feed.totalresults

mark_complete_dropped(state, search_query, now) == state

\* line 94: state[search_query] = now
mark_complete(state, search_query, now) ==
    [k \in (DOMAIN state) \cup {search_query} |->
        IF k = search_query THEN now ELSE state[k]]

EsIdle == [pc |-> "idle", params |-> <<>>, i |-> 0, force |-> FALSE,
           now |-> Z(0), cutoff |-> Z(0), loaded |-> <<>>, state |-> <<>>,
           start |-> 0, results |-> <<>>]

SmIdle == [pc |-> "idle", batch |-> <<>>]

Idle == es.pc = "idle" /\ sm.pc = "idle"

Ev(op, arg, out) == [op |-> op, arg |-> arg, out |-> out]

EsItem == es.params[es.i]

(***************************************************************************)
(* execute_searches, one step per cache test and per request               *)
(***************************************************************************)
Tick ==
    /\ Idle
    /\ clock < MaxClock
    /\ clock' = clock + 1
    /\ ev' = Ev("tick", "", "")
    /\ UNCHANGED <<cacheFile, es, db, dbFile, disk, sm>>

ExecStart ==
    /\ Idle
    /\ \E params \in ParamLists, cache_hours \in CacheHours, force \in BOOLEAN :
          es' = [pc |-> "loop", params |-> params, i |-> 1, force |-> force,
                 now |-> Z(clock), cutoff |-> Z(clock - cache_hours),
                 loaded |-> cacheFile, state |-> cacheFile, start |-> 0,
                 results |-> <<>>]
    /\ ev' = Ev("start", "", "")
    /\ UNCHANGED <<clock, cacheFile, db, dbFile, disk, sm>>

ExecSkip ==
    /\ es.pc = "loop"
    /\ es.i <= Len(es.params)
    /\ cache_fresh(es.state, EsItem.search_query, es.cutoff, es.force)
    /\ es' = [es EXCEPT !.i = @ + 1]
    /\ ev' = Ev("skip", EsItem.search_query, "")
    /\ UNCHANGED <<clock, cacheFile, db, dbFile, disk, sm>>

ExecIssue ==
    /\ es.pc = "loop"
    /\ es.i <= Len(es.params)
    /\ ~cache_fresh(es.state, EsItem.search_query, es.cutoff, es.force)
    /\ es' = [es EXCEPT !.pc = "page", !.start = EsItem.start]
    /\ ev' = Ev("issue", EsItem.search_query, "")
    /\ UNCHANGED <<clock, cacheFile, db, dbFile, disk, sm>>

\* requests.get returned: the payload is appended; on the last page the
\* query is marked complete and the state file is written
ExecPage ==
    /\ es.pc = "page"
    /\ LET q == EsItem.search_query
           feed == response(q, es.start, EsItem.max_results)
       IN IF page_is_last(feed, EsItem.max_results)
          THEN /\ es' = [es EXCEPT !.results = Append(@, feed),
                                   !.state = mark_complete(@, q, es.now),
                                   !.pc = "loop",
                                   !.i = @ + 1]
               /\ cacheFile' = mark_complete(es.state, q, es.now)
               /\ ev' = Ev("page", q, "last")
          ELSE /\ es' = [es EXCEPT !.results = Append(@, feed),
                                   !.start = feed.startindex + Len(feed.entries)]
               /\ cacheFile' = cacheFile
               /\ ev' = Ev("page", q, "more")
    /\ UNCHANGED <<clock, db, dbFile, disk, sm>>

\* requests.get raised: the error leaves execute_searches, its locals
\* (results among them) are gone with it
ExecRaise ==
    /\ es.pc = "page"
    /\ es' = [es EXCEPT !.pc = "raised"]
    /\ ev' = Ev("raise", EsItem.search_query, "")
    /\ UNCHANGED <<clock, cacheFile, db, dbFile, disk, sm>>

ExecReturn ==
    /\ es.pc = "loop"
    /\ es.i > Len(es.params)
    /\ es' = [es EXCEPT !.pc = "done"]
    /\ ev' = Ev("return", "", "")
    /\ UNCHANGED <<clock, cacheFile, db, dbFile, disk, sm>>

FeedEntries(results) == [k \in 1..Len(results) |-> results[k].entries]

\* what an assemble_feeds call was given: the urls of the entries and how
\* many entries there were
FeedUrls(feeds) ==
    UNION {{feed_record(feeds[k][n]).url : n \in DOMAIN feeds[k]} :
              k \in DOMAIN feeds}

RECURSIVE FeedCount(_)
FeedCount(feeds) ==
    IF feeds = <<>> THEN 0 ELSE Len(Head(feeds)) + FeedCount(Tail(feeds))

\* some entry of the call was not inserted
Skipped(feeds, data, data2) ==
    FeedCount(feeds) > Len(data2) - Len(data)

\* PaperDB._save runs inside insert and inside a successful update
saved(data, file, data2) == IF data2 # data THEN data2 ELSE file

\* the caller hands the returned payloads to assemble_feeds
AssembleReturned ==
    /\ es.pc = "done"
    /\ db' = assemble_feeds(FeedEntries(es.results), db)
    /\ dbFile' = saved(db, dbFile, db')
    /\ es' = EsIdle
    /\ ev' = Ev("assemble", FeedUrls(FeedEntries(es.results)),
                Skipped(FeedEntries(es.results), db, db'))
    /\ UNCHANGED <<clock, cacheFile, disk, sm>>

\* the error ended the run; the next run opens the store from its file
Restart ==
    /\ es.pc = "raised" \/ sm.pc = "raised"
    /\ es' = EsIdle
    /\ sm' = SmIdle
    /\ db' = dbFile
    /\ ev' = Ev("restart", "", "")
    /\ UNCHANGED <<clock, cacheFile, dbFile, disk>>

\* assemble_feeds on payloads of the caller's choosing
AssembleFeeds ==
    /\ Idle
    /\ \E feeds \in SeqsUpTo(FeedPool, MaxFeeds) \ {<<>>} :
          /\ db' = assemble_feeds(feeds, db)
          /\ ev' = Ev("assemble", FeedUrls(feeds), Skipped(feeds, db, db'))
    /\ dbFile' = saved(db, dbFile, db')
    /\ UNCHANGED <<clock, cacheFile, es, disk, sm>>

(***************************************************************************)
(* Acquisition                                                             *)
(***************************************************************************)
filename_always_appended(url) == split_last(url, <<"/">>) \o <<".pdf">>

\* _filename_from_url
filename_from_url(url) ==
    LET name == split_last(url, <<"/">>)
    IN IF endswith(name, ".pdf") THEN name ELSE name \o <<".pdf">>

\* filename.replace(".pdf", "")
RECURSIVE str_remove(_, _)
str_remove(s, a) ==
    IF s = <<>> THEN <<>>
    ELSE IF Head(s) = a THEN str_remove(Tail(s), a)
         ELSE <<Head(s)>> \o str_remove(Tail(s), a)

\* the loop body of download_papers / download_paper for one response:
\* the file is written, then the record of the recovered id is updated
store_response(data, resp_url) ==
    update(data, str_remove(filename_from_url(resp_url), ".pdf"),
           [downloaded |-> TRUE])

RECURSIVE store_responses(_, _)
store_responses(data, urls) ==
    IF urls = {} THEN data
    ELSE LET u == CHOOSE x \in urls : TRUE
         IN store_responses(store_response(data, u), urls \ {u})

written(urls) == {filename_from_url(u) : u \in urls}

\* download_papers on candidates assemble_feeds returned (their urls are in
\* the store): every url is fetched, the fetches that returned a response
\* are stored
DownloadPapers ==
    /\ Idle
    /\ \E cands \in SUBSET {db[i].url : i \in DOMAIN db} :
       \E ok \in SUBSET cands :
          /\ db' = store_responses(db, ok)
          /\ disk' = disk \cup written(ok)
          /\ ev' = Ev("download", "", "")
    /\ dbFile' = saved(db, dbFile, db')
    /\ UNCHANGED <<clock, cacheFile, es, sm>>

(***************************************************************************)
(* Extraction-Summarization                                                *)
(***************************************************************************)
\* what the model boundary can answer to a summarization request
F3 == <<"F1", "F2", "F3">>

\* a JSON value given as interest_score: an integer, a float (v its integer
\* part), a string holding an integer, any other string, null, NaN or an
\* infinite number (1e999)
Num(v) == [t |-> "int", v |-> v]
Float(v) == [t |-> "float", v |-> v]
NumStr(v) == [t |-> "str", v |-> v]
Text == [t |-> "text", v |-> 0]
Null == [t |-> "null", v |-> 0]
NaN == [t |-> "nan", v |-> 0]
Infinite == [t |-> "inf", v |-> 0]

\* int(x): the value, or the exception it raises
to_int(x) ==
    CASE x.t \in {"int", "float", "str"} -> [exc |-> "none", v |-> x.v]
      [] x.t \in {"text", "nan"} -> [exc |-> "ValueError", v |-> 0]
      [] x.t = "null" -> [exc |-> "TypeError", v |-> 0]
      [] x.t = "inf" -> [exc |-> "OverflowError", v |-> 0]

SummaryResponses ==
    {[kind |-> "raise"],
     [kind |-> "notjson"],
     [kind |-> "json", body |-> [one_liner |-> "L", tag |-> "security"]],
     [kind |-> "json", body |-> [findings |-> F3, tag |-> "security"]],
     [kind |-> "json", body |-> [findings |-> F3, one_liner |-> "L"]],
     [kind |-> "json",
      body |-> [findings |-> F3, one_liner |-> "L", emoji |-> "E",
                tag |-> "security", affiliations |-> <<"MIT">>,
                interest_score |-> Num(11)]],
     [kind |-> "json",
      body |-> [findings |-> F3, one_liner |-> "L", tag |-> "security",
                interest_score |-> Infinite]]}

\* the lowercase words found in the first 3000 characters of a document
TextPool == {{}, {"smith"}}

lower(w) == CASE w = "Smith" -> "smith"
              [] w = "SMITH" -> "smith"
              [] w = "Jones" -> "jones"
              [] OTHER -> w

\* dict.get(key, default)
get(d, k, default) == IF k \in DOMAIN d THEN d[k] ELSE default

validate_affiliations_above_half(affiliations, arxiv_authors, pdf_text) ==
    LET arxiv_last_names ==
            {lower(arxiv_authors[n][Len(arxiv_authors[n])]) :
                n \in {m \in DOMAIN arxiv_authors : arxiv_authors[m] # <<>>}}
        pdf_lower == {lower(w) : w \in pdf_text}
        matched == Cardinality(arxiv_last_names \cap pdf_lower)
    IN IF arxiv_last_names = {} THEN affiliations
       ELSE IF 2 * matched <= Cardinality(arxiv_last_names) THEN <<>>
       ELSE affiliations

\* _validate_affiliations (an author name is the sequence of its words,
\* <<>> for the empty name; pdf_text is the set of the words that occur in
\* the first 3000 characters)
validate_affiliations(affiliations, arxiv_authors, pdf_text) ==
    LET arxiv_last_names ==
            {lower(arxiv_authors[n][Len(arxiv_authors[n])]) :
                n \in {m \in DOMAIN arxiv_authors : arxiv_authors[m] # <<>>}}
        pdf_lower == {lower(w) : w \in pdf_text}
        matched == Cardinality(arxiv_last_names \cap pdf_lower)
    IN IF arxiv_last_names = {} THEN affiliations
       ELSE IF 2 * matched < Cardinality(arxiv_last_names) THEN <<>>
       ELSE affiliations

\* lines 81-88
checked_affiliations(loaded, record, pdf_text) ==
    LET affiliations == get(loaded, "affiliations", <<>>)
        arxiv_authors == get(record, "authors", <<>>)
    IN IF affiliations # <<>> /\ arxiv_authors # <<>>
       THEN validate_affiliations(affiliations, arxiv_authors, pdf_text)
       ELSE affiliations

\* lines 91-95: the score stored when int() raised nothing the inner try
\* lets through
clamp_score(loaded) ==
    LET raw_score == to_int(get(loaded, "interest_score", Num(5)))
    IN IF raw_score.exc \in {"TypeError", "ValueError"} THEN 5
       ELSE IF raw_score.v > 10 THEN 10
       ELSE IF raw_score.v < 1 THEN 1
       ELSE raw_score.v

\* line 94 catches TypeError and ValueError only: any other exception of
\* int() leaves the inner try
score_raises(loaded) ==
    to_int(get(loaded, "interest_score", Num(5))).exc
        \notin {"none", "TypeError", "ValueError"}

\* the response makes lines 77-105 raise before update is called
summary_fails(resp) ==
    IF resp.kind # "json" THEN TRUE
    ELSE IF ~(Has(resp.body, "findings") /\ Has(resp.body, "one_liner"))
         THEN TRUE
    ELSE score_raises(resp.body)

summary_fields_partial(loaded, record, pdf_text) ==
    [summarized |-> TRUE,
     points |-> loaded.findings,
     one_liner |-> loaded.one_liner]

\* lines 97-105: the fields of the one update call
summary_fields(loaded, record, pdf_text) ==
    [summarized |-> TRUE,
     points |-> loaded.findings,
     one_liner |-> loaded.one_liner,
     emoji |-> get(loaded, "emoji", "default"),
     tag |-> get(loaded, "tag", "general"),
     affiliations |-> checked_affiliations(loaded, record, pdf_text),
     interest_score |-> clamp_score(loaded)]

pdf_name(record) == record.id \o <<".pdf">>

\* lines 54-65: how the document of a record is opened.
\*   fetch: the fallback download returned a response
\*   readable: PdfReader accepts the file it finds
\* doc is "local", "fallback" (opened after the fallback download),
\* "missing" (no file after the fallback) or "corrupt"
open_document(data, files, record, fetch, readable) ==
    IF pdf_name(record) \in files
    THEN [data |-> data, files |-> files,
          doc |-> IF readable THEN "local" ELSE "corrupt"]
    ELSE LET data2 == IF fetch THEN store_response(data, record.url) ELSE data
             files2 == IF fetch THEN files \cup written({record.url})
                       ELSE files
         IN [data |-> data2, files |-> files2,
             doc |-> IF pdf_name(record) \notin files2 THEN "missing"
                     ELSE IF readable THEN "fallback" ELSE "corrupt"]

SmRecord == db[Head(sm.batch)]

\* assemble_records, then summarize_records on what it returned
SummStart ==
    /\ Idle
    /\ \E w \in Windows :
          /\ sm' = [pc |-> "run", batch |-> find(db, <<w>>, <<FALSE>>)]
          /\ ev' = Ev("assemble_records", w, "")
    /\ UNCHANGED <<clock, cacheFile, es, db, dbFile, disk>>

\* the document cannot be opened: logged, next record
SummSkip ==
    /\ sm.pc = "run" /\ sm.batch # <<>>
    /\ \E fetch \in BOOLEAN, readable \in BOOLEAN :
          LET o == open_document(db, disk, SmRecord, fetch, readable)
          IN /\ o.doc \in {"missing", "corrupt"}
             /\ db' = o.data
             /\ disk' = o.files
             /\ ev' = Ev("summ", Head(sm.batch), <<o.doc, "none">>)
    /\ dbFile' = saved(db, dbFile, db')
    /\ sm' = [sm EXCEPT !.batch = Tail(@)]
    /\ UNCHANGED <<clock, cacheFile, es>>

\* read_pages (line 67, outside every try) raises: the error leaves
\* summarize_records
SummExtractRaise ==
    /\ sm.pc = "run" /\ sm.batch # <<>>
    /\ \E fetch \in BOOLEAN :
          LET o == open_document(db, disk, SmRecord, fetch, TRUE)
          IN /\ o.doc \in {"local", "fallback"}
             /\ db' = o.data
             /\ disk' = o.files
             /\ ev' = Ev("summ", Head(sm.batch), <<o.doc, "extract_raise">>)
    /\ dbFile' = saved(db, dbFile, db')
    /\ sm' = [sm EXCEPT !.pc = "raised"]
    /\ UNCHANGED <<clock, cacheFile, es>>

\* the text went to the model; the call or the reading of its answer failed
SummModelFail ==
    /\ sm.pc = "run" /\ sm.batch # <<>>
    /\ \E fetch \in BOOLEAN, resp \in SummaryResponses :
          LET o == open_document(db, disk, SmRecord, fetch, TRUE)
          IN /\ o.doc \in {"local", "fallback"}
             /\ summary_fails(resp)
             /\ db' = o.data
             /\ disk' = o.files
             /\ ev' = Ev("summ", Head(sm.batch), <<o.doc, "fail">>)
    /\ dbFile' = saved(db, dbFile, db')
    /\ sm' = [sm EXCEPT !.batch = Tail(@)]
    /\ UNCHANGED <<clock, cacheFile, es>>

\* the answer was read: one update call
SummOk ==
    /\ sm.pc = "run" /\ sm.batch # <<>>
    /\ \E fetch \in BOOLEAN, resp \in SummaryResponses, text \in TextPool :
          LET o == open_document(db, disk, SmRecord, fetch, TRUE)
          IN /\ o.doc \in {"local", "fallback"}
             /\ ~summary_fails(resp)
             /\ db' = update(o.data, SmRecord.id,
                             summary_fields(resp.body, SmRecord, text))
             /\ disk' = o.files
             /\ ev' = Ev("summ", Head(sm.batch), <<o.doc, "ok">>)
    /\ dbFile' = saved(db, dbFile, db')
    /\ sm' = [sm EXCEPT !.batch = Tail(@)]
    /\ UNCHANGED <<clock, cacheFile, es>>

SummReturn ==
    /\ sm.pc = "run" /\ sm.batch = <<>>
    /\ sm' = SmIdle
    /\ ev' = Ev("summ_return", "", "")
    /\ UNCHANGED <<clock, cacheFile, es, db, dbFile, disk>>

(***************************************************************************)
(* PaperDB.reset_summarized                                                *)
(***************************************************************************)
\* the classification fields the call took off the records it reset
reset_cleared(data, w) ==
    UNION {(DOMAIN data[i]) \cap {"relevant", "projects"} :
              i \in {n \in DOMAIN data : reset_hits(data[n], w)}}

ResetSummarized ==
    /\ Idle
    /\ \E w \in Windows :
          /\ db' = reset_summarized(db, w)
          /\ dbFile' = IF reset_writes(db, w) > 0 THEN db' ELSE dbFile
          /\ ev' = Ev("reset", w,
                      [count |-> reset_count(db, w),
                       cleared |-> reset_cleared(db, w),
                       writes |-> reset_writes(db, w)])
    /\ UNCHANGED <<clock, cacheFile, es, disk, sm>>

(***************************************************************************)
(* Classification                                                          *)
(***************************************************************************)
\* what the model boundary can answer to a relevance request
RelevanceAnswers == {"true", "false", "error"}

relevance_asks_model_any_tag(r) == ~Has(r, "relevant")

\* lines 159-165: the record is sent to the model (not classified yet, and
\* its tag, "general" when missing, is not "general")
relevance_asks_model(r) ==
    ~Has(r, "relevant") /\ get(r, "tag", "general") # "general"

relevance_verdict_fail_closed(answer) == answer = "true"

\* lines 180-188: the verdict stored for what the model answered
relevance_verdict(answer) == answer # "false"

\* lines 158-188 for one record
classify_one(data, i, answer) ==
    IF Has(data[i], "relevant") THEN data
    ELSE IF relevance_asks_model(data[i])
         THEN update(data, data[i].id,
                     [relevant |-> relevance_verdict(answer)])
    ELSE update(data, data[i].id, [relevant |-> FALSE])

RECURSIVE classify_relevance(_, _, _)
classify_relevance(data, records, answers) ==
    IF records = <<>> THEN data
    ELSE classify_relevance(
            classify_one(data, Head(records), answers[Head(records)]),
            Tail(records), answers)

\* the records of the pass for which the model was called
RECURSIVE relevance_calls(_, _, _)
relevance_calls(data, records, answers) ==
    IF records = <<>> THEN {}
    ELSE (IF relevance_asks_model(data[Head(records)])
          THEN {Head(records)} ELSE {})
         \cup relevance_calls(
                 classify_one(data, Head(records), answers[Head(records)]),
                 Tail(records), answers)

summarized_records_any(data) == find(data, <<>>, <<>>)

\* the records the pipeline hands to the relevance pass
summarized_records(data) == find(data, <<>>, <<TRUE>>)

ClassifyRelevance ==
    /\ Idle
    /\ LET records == summarized_records(db)
       IN \E answers \in [Range(records) -> RelevanceAnswers] :
          LET calls == relevance_calls(db, records, answers)
          IN /\ db' = classify_relevance(db, records, answers)
             /\ ev' = Ev("classify_relevance", records,
                         [calls |-> calls,
                          answers |-> [i \in calls |-> answers[i]]])
    /\ dbFile' = saved(db, dbFile, db')
    /\ UNCHANGED <<clock, cacheFile, es, disk, sm>>

\* the project catalog and what the model boundary can answer
ProjectIds == {"p1"}
ProjectAnswers == {<<>>, <<"bogus", "p1">>, <<"error">>}

keep_valid_unchecked(matched, valid_ids) == matched

\* line 143: the ids of the answer that are in the catalog
RECURSIVE keep_valid(_, _)
keep_valid(matched, valid_ids) ==
    IF matched = <<>> THEN <<>>
    ELSE IF Head(matched) \in valid_ids
         THEN <<Head(matched)>> \o keep_valid(Tail(matched), valid_ids)
         ELSE keep_valid(Tail(matched), valid_ids)

project_asks_model_always(r) == TRUE

\* lines 124-125: the record is sent to the model
project_asks_model(r) == ~Has(r, "projects")

\* lines 123-149 for one record
project_one(data, i, answer) ==
    IF ~project_asks_model(data[i]) THEN data
    ELSE IF answer = <<"error">>
         THEN update(data, data[i].id, [projects |-> <<>>])
    ELSE update(data, data[i].id,
                [projects |-> keep_valid(answer, ProjectIds)])

RECURSIVE classify_project_relevance(_, _, _)
classify_project_relevance(data, records, answers) ==
    IF records = <<>> THEN data
    ELSE classify_project_relevance(
            project_one(data, Head(records), answers[Head(records)]),
            Tail(records), answers)

\* the records of the pass for which the model was called
RECURSIVE project_calls(_, _, _)
project_calls(data, records, answers) ==
    IF records = <<>> THEN {}
    ELSE (IF project_asks_model(data[Head(records)])
          THEN {Head(records)} ELSE {})
         \cup project_calls(
                 project_one(data, Head(records), answers[Head(records)]),
                 Tail(records), answers)

\* the records the pipeline hands to the project pass
relevant_records(data) ==
    SeqOfSet({i \in DOMAIN data :
                /\ find_match(data[i], <<>>, <<TRUE>>)
                /\ Has(data[i], "relevant") /\ data[i].relevant = TRUE})

ClassifyProjects ==
    /\ Idle
    /\ LET records == relevant_records(db)
       IN \E answers \in [Range(records) -> ProjectAnswers] :
          LET calls == project_calls(db, records, answers)
          IN /\ db' = classify_project_relevance(db, records, answers)
             /\ ev' = Ev("classify_projects", records,
                         [calls |-> calls,
                          answers |-> [i \in calls |-> answers[i]]])
    /\ dbFile' = saved(db, dbFile, db')
    /\ UNCHANGED <<clock, cacheFile, es, disk, sm>>

(***************************************************************************)
(* PaperDB called directly: insert, update, find, reset_summarized and a   *)
(* new PaperDB opened on the same path                                     *)
(***************************************************************************)
\* the records insert is given: as process_feed builds them
RecordPool == {feed_record(e) : e \in EntryPool}

UnknownId == <<"9999.99999v9">>

UpdateIds == {r.id : r \in RecordPool} \cup {UnknownId}

\* fields the stages pass to update
UpdateFields ==
    {[downloaded |-> TRUE],
     [summarized |-> TRUE, tag |-> "security"]}

StoreInsert ==
    /\ Len(db) < MaxRecords
    /\ \E record \in RecordPool :
          /\ db' = insert(db, record)
          /\ dbFile' = db'
          /\ ev' = Ev("insert", record, Len(db'))
    /\ UNCHANGED <<clock, cacheFile, es, disk, sm>>

StoreUpdate ==
    /\ \E paper_id \in UpdateIds, fields \in UpdateFields :
          /\ db' = update(db, paper_id, fields)
          /\ dbFile' = IF update_target(db, paper_id) # 0 THEN db'
                       ELSE dbFile
          /\ ev' = Ev("update", [id |-> paper_id, fields |-> fields],
                      update_target(db, paper_id) # 0)
    /\ UNCHANGED <<clock, cacheFile, es, disk, sm>>

StoreFind ==
    /\ \E published_gte \in {<<>>} \cup {<<w>> : w \in Windows},
          summarized \in {<<>>, <<TRUE>>, <<FALSE>>} :
          ev' = Ev("find",
                   [published_gte |-> published_gte,
                    summarized |-> summarized],
                   find(db, published_gte, summarized))
    /\ UNCHANGED <<clock, cacheFile, es, db, dbFile, disk, sm>>

\* PaperDB(path) on the path of the store in use
StoreOpen ==
    /\ db' = dbFile
    /\ ev' = Ev("open", "", Len(dbFile))
    /\ UNCHANGED <<clock, cacheFile, es, dbFile, disk, sm>>

(***************************************************************************)
(* The functions of the summarization step applied to given inputs         *)
(***************************************************************************)
\* author names as process_feed stores them (the empty name included)
AuthorNames ==
    {<<"Alice", "Smith">>, <<"Bob", "SMITH">>, <<"Carol", "Jones">>, <<>>}

AuthorLists == SeqsUpTo(AuthorNames, MaxAuthors)

\* the words of the first 3000 characters of the extracted text
TextWords == SUBSET {"Smith", "jones"}

AffiliationPool == {<<>>, <<"MIT">>}

\* lines 81-88 on an answer, a record and an extracted text
ApplyAffiliations ==
    /\ \E affiliations \in AffiliationPool, authors \in AuthorLists,
          text \in TextWords :
          ev' = Ev("affiliations",
                   [affiliations |-> affiliations, authors |-> authors,
                    text |-> text],
                   checked_affiliations([affiliations |-> affiliations],
                                        [authors |-> authors], text))
    /\ UNCHANGED <<clock, cacheFile, es, db, dbFile, disk, sm>>

\* urls _filename_from_url is given: the url of a record, the same without
\* the extension (the address a redirect ends at), one ending with "/"
UrlPool ==
    {feed_record(e).url : e \in EntryPool} \cup
    {<<"https://arxiv.org", "/", "pdf", "/", "2601.00001v1">>,
     <<"https://arxiv.org", "/", "pdf", "/">>,
     <<"2601.00002v1", ".pdf">>}

ApplyFilename ==
    /\ \E url \in UrlPool :
          ev' = Ev("filename", url, filename_from_url(url))
    /\ UNCHANGED <<clock, cacheFile, es, db, dbFile, disk, sm>>

\* the object process_feed builds for one entry
ApplyFeedRecord ==
    /\ \E entry \in EntryPool :
          ev' = Ev("feed_record", entry, feed_record(entry))
    /\ UNCHANGED <<clock, cacheFile, es, db, dbFile, disk, sm>>

\* an entry with an identifier of the scheme used before 2007, which has
\* the archive name and a "/" in it
E5 == [id |-> <<"http://arxiv.org", "/", "abs", "/", "cs", "/", "0101001v1">>,
       published |-> [local |-> 2, off |-> 0],
       title |-> "Gamma",
       authors |-> <<>>]

\* the addresses the response for a record's url can carry: the url asked
\* for, or the one a redirect ended at (https, no extension)
response_urls(url) ==
    {url,
     <<"https://arxiv.org">> \o SubSeq(url, 2, Len(url) - 1)}

\* a store holding the record process_feed made of one entry, and the
\* loop body of download_papers / download_paper on the response for its
\* url
ApplyDownload ==
    /\ \E entry \in EntryPool \cup {E5} :
       \E resp_url \in response_urls(feed_record(entry).url) :
          LET data == insert(<<>>, feed_record(entry))
          IN ev' = Ev("download_one",
                      [record |-> data[1], resp_url |-> resp_url],
                      [data |-> store_response(data, resp_url),
                       files |-> written({resp_url})])
    /\ UNCHANGED <<clock, cacheFile, es, db, dbFile, disk, sm>>

\* the values the model can give as interest_score
ScorePool ==
    {Num(-3), Num(0), Num(1), Num(7), Num(10), Num(11), Float(7),
     NumStr(8), Text, Null, NaN, Infinite}

\* complete answers that differ in interest_score only
ScoreResponses ==
    {[kind |-> "json",
      body |-> [findings |-> F3, one_liner |-> "L", tag |-> "security"]]}
    \cup {[kind |-> "json",
           body |-> [findings |-> F3, one_liner |-> "L", tag |-> "security",
                     interest_score |-> x]] : x \in ScorePool}

\* the values the model can give as tag: the three the prompt names, and
\* others
TagPool == {"security", "cyber", "general", "Security", "malware"}

\* complete answers that differ in tag only
TagResponses ==
    {[kind |-> "json",
      body |-> [findings |-> F3, one_liner |-> "L", tag |-> t,
                interest_score |-> Num(7)]] : t \in TagPool}

\* lines 77-108 on one answer: the update made, or none
ApplySummary ==
    /\ \E resp \in ScoreResponses \cup TagResponses :
          ev' = Ev("summarize_one", resp.body,
                   IF summary_fails(resp) THEN [ok |-> FALSE]
                   ELSE [ok |-> TRUE,
                         fields |-> summary_fields(resp.body,
                                                   feed_record(E1), {})])
    /\ UNCHANGED <<clock, cacheFile, es, db, dbFile, disk, sm>>

(***************************************************************************)
(* Publication (utils_comms.share_results)                                 *)
(***************************************************************************)
\* records a store can hold when share_results is called: summarized by
\* the pipeline, or inserted as they are (older stores have records without
\* interest_score, relevant or a summary field)
ShareRecord(n, published, summarized) ==
    [id |-> <<n>>, url |-> <<"http://arxiv.org", "/", "pdf", "/", n, ".pdf">>,
     published |-> published, title |-> n, downloaded |-> TRUE,
     summarized |-> summarized]

Summary == [emoji |-> "E", tag |-> "security", one_liner |-> "L",
            points |-> F3]

SharePool ==
    {Merge(ShareRecord("low", Z(2), TRUE),
           Merge(Summary, [relevant |-> TRUE, interest_score |-> 3])),
     Merge(ShareRecord("high", Z(2), TRUE),
           Merge(Summary, [relevant |-> TRUE, interest_score |-> 9])),
     Merge(ShareRecord("legacy", Z(2), TRUE),
           Merge(Summary, [relevant |-> TRUE])),
     Merge(ShareRecord("irrel", Z(2), TRUE),
           Merge(Summary, [relevant |-> FALSE, interest_score |-> 6])),
     Merge(ShareRecord("unclassified", Z(2), TRUE),
           Merge(Summary, [interest_score |-> 6])),
     Merge(ShareRecord("old", Z(1), TRUE),
           Merge(Summary, [relevant |-> TRUE, interest_score |-> 9])),
     ShareRecord("new", Z(2), FALSE),
     Merge(ShareRecord("partial", Z(2), TRUE),
           [emoji |-> "E", tag |-> "security", points |-> F3,
            relevant |-> TRUE])}

\* the keys both formatters read with record[...]: a missing one raises
\* KeyError
FormatKeys == {"emoji", "title", "url", "tag", "one_liner", "points"}

formattable(r) == FormatKeys \subseteq DOMAIN r

\* _format_record_markdown / _format_record_html: what the text shows
format_record(r, fmt) ==
    [fmt |-> fmt, emoji |-> r.emoji, title |-> r.title, url |-> r.url,
     tag |-> r.tag, authors |-> get(r, "authors", <<>>),
     affiliations |-> get(r, "affiliations", <<>>),
     one_liner |-> r.one_liner, points |-> r.points]

is_relevant_unless_false(r) ==
    IF Has(r, "relevant") THEN r.relevant # FALSE ELSE TRUE

\* line 78: r.get("relevant") is True
is_relevant(r) == IF Has(r, "relevant") THEN r.relevant = TRUE ELSE FALSE

NothingShared(data) ==
    [returned |-> FALSE, records |-> <<>>, markdown |-> <<>>, html |-> <<>>,
     written |-> {}, data |-> data]

share_results_partial(data, pull_window, include_all) ==
    LET found == find(data, <<pull_window>>, <<TRUE>>)
        records == IF include_all THEN found
                   ELSE SelectSeq(found, LAMBDA i : is_relevant(data[i]))
        done == SelectSeq(records, LAMBDA i : formattable(data[i]))
    IN [returned |-> (records # <<>> /\ done = records),
        records |-> records,
        markdown |-> [k \in DOMAIN done |-> format_record(data[done[k]], "md")],
        html |-> [k \in DOMAIN done |-> format_record(data[done[k]], "html")],
        written |-> IF done = <<>> THEN {} ELSE {"md", "eml"},
        data |-> data]

share_results_marking(data, pull_window, include_all) ==
    LET found == find(data, <<pull_window>>, <<TRUE>>)
        records == IF include_all THEN found
                   ELSE SelectSeq(found, LAMBDA i : is_relevant(data[i]))
    IN IF records = <<>> \/ \E k \in DOMAIN records :
                               ~formattable(data[records[k]])
       THEN NothingShared(data)
       ELSE [returned |-> TRUE,
             records |-> records,
             markdown |-> [k \in DOMAIN records |->
                             format_record(data[records[k]], "md")],
             html |-> [k \in DOMAIN records |->
                         format_record(data[records[k]], "html")],
             written |-> {"md", "eml"},
             data |-> [i \in DOMAIN data |->
                         IF i \in Range(records)
                         THEN Merge(data[i], [shared |-> TRUE])
                         ELSE data[i]]]

\* share_results: what it returns, the records it selected (positions in
\* the store, in the order rendered), the two texts, the files written and
\* the store it leaves
share_results(data, pull_window, include_all) ==
    LET found == find(data, <<pull_window>>, <<TRUE>>)
        records == IF include_all THEN found
                   ELSE SelectSeq(found, LAMBDA i : is_relevant(data[i]))
    IN IF records = <<>> \/ \E k \in DOMAIN records :
                               ~formattable(data[records[k]])
       THEN NothingShared(data)
       ELSE [returned |-> TRUE,
             records |-> records,
             markdown |-> [k \in DOMAIN records |->
                             format_record(data[records[k]], "md")],
             html |-> [k \in DOMAIN records |->
                         format_record(data[records[k]], "html")],
             written |-> {"md", "eml"},
             data |-> data]

ShareInsert ==
    /\ Len(db) < MaxRecords
    /\ \E record \in SharePool :
          /\ db' = insert(db, record)
          /\ dbFile' = db'
          /\ ev' = Ev("insert", record, Len(db'))
    /\ UNCHANGED <<clock, cacheFile, es, disk, sm>>

ShareResults ==
    /\ \E pull_window \in Windows, include_all \in BOOLEAN :
          LET out == share_results(db, pull_window, include_all)
          IN /\ db' = out.data
             /\ dbFile' = saved(db, dbFile, db')
             /\ ev' = Ev("share",
                         [pull_window |-> pull_window,
                          include_all |-> include_all],
                         [returned |-> out.returned, records |-> out.records,
                          markdown |-> out.markdown, html |-> out.html,
                          written |-> out.written])
    /\ UNCHANGED <<clock, cacheFile, es, disk, sm>>

(***************************************************************************)
(* Acquisition, called one function at a time                              *)
(***************************************************************************)
\* the entry of E1 as a later payload carries it: the same id, another title
E4 == [E1 EXCEPT !.title = "Alpha revised"]

AcquireFeedPool == FeedPool \cup {<<E4, E1>>, <<E2, E4>>}

AcquireFeeds == SeqsUpTo(AcquireFeedPool, MaxFeeds) \ {<<>>}

\* results += process_feed(feed, paper_db): the objects of every entry of
\* every payload, stored or not
RECURSIVE processed(_)
processed(feeds) ==
    IF feeds = <<>> THEN <<>>
    ELSE [k \in DOMAIN Head(feeds) |-> feed_record(Head(feeds)[k])]
            \o processed(Tail(feeds))

RECURSIVE deduplicate_keep_last(_)
deduplicate_keep_last(results) ==
    IF results = <<>> THEN <<>>
    ELSE LET rest == deduplicate_keep_last(Tail(results))
         IN IF \E k \in DOMAIN rest : rest[k].url = Head(results).url
            THEN rest
            ELSE <<Head(results)>> \o rest

\* the seen/deduplicated loop of assemble_feeds
RECURSIVE deduplicate(_)
deduplicate(results) ==
    IF results = <<>> THEN <<>>
    ELSE LET first == deduplicate(SubSeq(results, 1, Len(results) - 1))
             item == results[Len(results)]
         IN IF \E k \in DOMAIN first : first[k].url = item.url
            THEN first
            ELSE Append(first, item)

\* what assemble_feeds returns
assemble_returned(feeds) == deduplicate(processed(feeds))

CandidateLists == {assemble_returned(feeds) : feeds \in AcquireFeeds}

\* _normalize_iso
normalize_iso(ts) == [local |-> ts.local - ts.off, off |-> 0]

in_window_strict(published, pull_window) ==
    ~str_ge(pull_window, normalize_iso(published))

\* not (published < pull_window)
in_window(published, pull_window) ==
    str_ge(normalize_iso(published), pull_window)

\* prune_feeds, files being the names of the files in paper_path
prune_feeds(feeds, pull_window, files) ==
    SelectSeq(feeds, LAMBDA feed :
                 /\ in_window(feed.published, pull_window)
                 /\ (feed.id \o <<".pdf">>) \notin files)

\* the orders in which the loop of _request_bulk can meet the settled
\* fetches (it iterates over a set)
Orderings(S) ==
    {o \in SeqsUpTo(S, Cardinality(S)) :
        Len(o) = Cardinality(S) /\ Range(o) = S}

\* the loop of download_papers over the responses, one update at a time
RECURSIVE store_in_order(_, _)
store_in_order(data, order) ==
    IF order = <<>> THEN data
    ELSE store_in_order(store_response(data, Head(order)), Tail(order))

\* urls = list({r["url"] for r in results})
result_urls(results) == {results[k].url : k \in DOMAIN results}

AcquireAssemble ==
    /\ \E feeds \in AcquireFeeds :
          /\ db' = assemble_feeds(feeds, db)
          /\ ev' = Ev("assemble_feeds", feeds, assemble_returned(feeds))
    /\ dbFile' = saved(db, dbFile, db')
    /\ UNCHANGED <<clock, cacheFile, es, disk, sm>>

AcquirePrune ==
    /\ \E feeds \in CandidateLists, pull_window \in Windows :
          ev' = Ev("prune_feeds",
                   [feeds |-> feeds, pull_window |-> pull_window],
                   prune_feeds(feeds, pull_window, disk))
    /\ UNCHANGED <<clock, cacheFile, es, db, dbFile, disk, sm>>

\* download_papers on candidates assemble_feeds returned (their urls are in
\* the store): _request_bulk drops the fetches that failed, the loop stores
\* the responses that came back
AcquireDownload ==
    /\ \E results \in CandidateLists :
       \E ok \in SUBSET result_urls(results) :
          /\ \A u \in result_urls(results) : has_url(db, u)
          /\ \E order \in Orderings(ok) : db' = store_in_order(db, order)
          /\ disk' = disk \cup written(ok)
          /\ ev' = Ev("download_papers", result_urls(results), ok)
    /\ dbFile' = saved(db, dbFile, db')
    /\ UNCHANGED <<clock, cacheFile, es, sm>>

(***************************************************************************)
(* The pagination loop of execute_searches, one query against one source   *)
(***************************************************************************)
MaxTotal == 3
MaxPage == 2

\* the requests a run of the loop is followed for; a source that echoes the
\* start index ends the loop before that
MaxRequests == MaxTotal + 2

\* a source: the total it reports, the entries it holds for the query, and
\* whether opensearch_startindex echoes the requested start (or is 0)
PageSources ==
    [total : 0..MaxTotal, held : 0..MaxTotal, echo : BOOLEAN]

PageItems == [start : 0..1, max_results : 1..MaxPage]

\* the feed of one request
page_response(src, start, max_results) ==
    LET left == IF src.held > start THEN src.held - start ELSE 0
        returned == IF left < max_results THEN left ELSE max_results
    IN [totalresults |-> src.total,
        startindex |-> IF src.echo THEN start ELSE 0,
        entries |-> [k \in 1..returned |-> start + k]]

next_start_stuck(feed) == feed.startindex

\* line 90: current_start = start_index + returned_results
next_start(feed) == feed.startindex + Len(feed.entries)

PagesIssue ==
    /\ es.pc \in {"idle", "complete"}
    /\ \E item \in PageItems, src \in PageSources :
          es' = [pc |-> "page", item |-> item, src |-> src,
                 start |-> item.start, results |-> <<>>]
    /\ ev' = Ev("issue", "", "")
    /\ UNCHANGED <<clock, cacheFile, db, dbFile, disk, sm>>

\* one pass of the while loop: request, append, test, advance
PagesRequest ==
    /\ es.pc = "page"
    /\ Len(es.results) < MaxRequests
    /\ LET feed == page_response(es.src, es.start, es.item.max_results)
       IN /\ es' = [es EXCEPT
                      !.results = Append(@, feed),
                      !.pc = IF page_is_last(feed, es.item.max_results)
                             THEN "complete" ELSE "page",
                      !.start = IF page_is_last(feed, es.item.max_results)
                                THEN @ ELSE next_start(feed)]
          /\ ev' = Ev("page", es.start, feed)
    /\ UNCHANGED <<clock, cacheFile, db, dbFile, disk, sm>>

Init ==
    /\ clock = 0
    /\ cacheFile = <<>>
    /\ es = EsIdle
    /\ db = <<>>
    /\ dbFile = <<>>
    /\ disk = {}
    /\ sm = SmIdle
    /\ ev = Ev("init", "", "")

NextSearch ==
    \/ Tick
    \/ ExecStart
    \/ ExecSkip
    \/ ExecIssue
    \/ ExecPage
    \/ ExecRaise
    \/ ExecReturn
    \/ AssembleReturned
    \/ Restart

SpecSearch == Init /\ [][NextSearch]_vars

Next ==
    \/ AssembleFeeds
    \/ DownloadPapers
    \/ SummStart
    \/ SummSkip
    \/ SummExtractRaise
    \/ SummModelFail
    \/ SummOk
    \/ SummReturn
    \/ Restart
    \/ ResetSummarized
    \/ ClassifyRelevance
    \/ ClassifyProjects

Spec == Init /\ [][Next]_vars

NextStore ==
    \/ StoreInsert
    \/ StoreUpdate
    \/ StoreFind
    \/ ResetSummarized
    \/ StoreOpen

SpecStore == Init /\ [][NextStore]_vars

NextFunctions ==
    \/ ApplyAffiliations
    \/ ApplySummary
    \/ ApplyFilename
    \/ ApplyFeedRecord
    \/ ApplyDownload

SpecFunctions == Init /\ [][NextFunctions]_vars

NextShare ==
    \/ ShareInsert
    \/ ShareResults

SpecShare == Init /\ [][NextShare]_vars

NextAcquire ==
    \/ AcquireAssemble
    \/ AcquirePrune
    \/ AcquireDownload

SpecAcquire == Init /\ [][NextAcquire]_vars

NextPages ==
    \/ PagesIssue
    \/ PagesRequest

SpecPages == Init /\ [][NextPages]_vars

\* the loop runs on: a request that is due is made
SpecPagesFair == SpecPages /\ WF_vars(PagesRequest)

(***************************************************************************)
(* Properties                                                              *)
(***************************************************************************)
Urls(data) == {data[i].url : i \in DOMAIN data}

\* C1: after any ingestion the store holds exactly one record per distinct
\* url: the urls stored are those stored before plus those of the entries
\* given, no url is stored twice, and every record already stored is left
\* as it was.
C1_OneRecordPerUrl ==
    /\ [](\A i, j \in DOMAIN db : db[i].url = db[j].url => i = j)
    /\ [][ev'.op = "assemble" =>
            /\ Urls(db') = Urls(db) \cup ev'.arg
            /\ Len(db') = Cardinality(Urls(db'))
            /\ \A i \in DOMAIN db : db'[i] = db[i]]_vars

C1_Witness ==
    /\ ev.op = "assemble"
    /\ ev.out = TRUE
    /\ Cardinality(ev.arg) >= 2
    /\ Len(db) = Cardinality(ev.arg)

\* C2: when execute_searches aborts, every payload it had fetched is either
\* wholly in the record store, or its query is not fresh in the search cache
\* (so the next non-forced run fetches it again).
C2_NoLostResults ==
    es.pc = "raised" =>
        \A k \in DOMAIN es.results :
            \/ \A n \in DOMAIN es.results[k].entries :
                  has_url(db, feed_record(es.results[k].entries[n]).url)
            \/ ~cache_fresh(cacheFile, es.results[k].q, es.cutoff, FALSE)

NoneCached ==
    \A j \in DOMAIN es.params :
        es.params[j].search_query \notin DOMAIN es.loaded

\* C3: when query k of a batch with no cached query fails, the error leaves
\* execute_searches and the persisted cache holds a completed entry (this
\* run's timestamp) for each of the queries 1..k-1 and nothing else.
C3_ResumableCache ==
    (es.pc = "raised" /\ NoneCached) =>
        /\ \A j \in 1..(es.i - 1) :
              /\ es.params[j].search_query \in DOMAIN cacheFile
              /\ cacheFile[es.params[j].search_query] = es.now
        /\ \A j \in es.i..Len(es.params) :
              es.params[j].search_query \in DOMAIN cacheFile =>
                  \E j2 \in 1..(es.i - 1) :
                      es.params[j2].search_query = es.params[j].search_query
        /\ DOMAIN cacheFile \ DOMAIN es.loaded =
              {es.params[j].search_query : j \in 1..(es.i - 1)}

C3_Witness ==
    /\ es.pc = "raised"
    /\ NoneCached
    /\ Len(es.params) = 2
    /\ es.i = 2
    /\ es.params[1].search_query # es.params[2].search_query

\* C4: a query is skipped (no request, no payload appended, cache entry
\* unchanged) exactly when force is false and the cache holds an entry for
\* it that is not older than the cutoff; otherwise it is issued.
C4_SkipExactlyWhenFresh ==
    [][LET q == es.params[es.i].search_query
           fresh == /\ ~es.force
                    /\ q \in DOMAIN cacheFile
                    /\ cacheFile[q].local >= es.cutoff.local
       IN /\ (ev'.op = "skip" =>
                 /\ fresh
                 /\ es'.results = es.results
                 /\ cacheFile' = cacheFile
                 /\ es'.pc = "loop")
          /\ (ev'.op = "issue" => ~fresh /\ es'.pc = "page")
          /\ (es.pc = "loop" /\ es.i <= Len(es.params) =>
                 ev'.op \in {"skip", "issue"})]_vars

C4_Witness ==
    /\ ev.op = "skip"
    /\ ev.arg \in DOMAIN es.loaded
    /\ es.results = <<>>

SummaryPart(r) ==
    [k \in (DOMAIN r) \cap (SummaryKeys \cup {"summarized"}) |-> r[k]]

\* C5 as stated: a summarization step whose model call or answer fails
\* leaves the record exactly as it was; a successful one sets summarized
\* and all six summary fields at once.
C5_FailureLeavesRecordAsItWas ==
    [][ev'.op = "summ" =>
        /\ (ev'.out[2] = "fail" => db'[ev'.arg] = db[ev'.arg])
        /\ (ev'.out[2] = "ok" =>
              \E t \in DOMAIN db :
                 /\ db'[t].summarized = TRUE
                 /\ SummaryKeys \subseteq DOMAIN db'[t])]_vars

\* C5 amended: a summarization step whose model call or answer fails
\* leaves summarized false and writes no summary field; the one change it
\* can make to a record is downloaded = true, set by the fallback download
\* before the model was called. A successful step sets summarized and all
\* six summary fields on the record at once. No record ever holds a proper
\* subset of the summary fields.
C5_AtomicSummary ==
    [][ev'.op = "summ" =>
        /\ (ev'.out[2] = "fail" =>
              /\ \A i \in DOMAIN db :
                    \/ db'[i] = db[i]
                    \/ /\ ev'.out[1] = "fallback"
                       /\ db'[i] = [db[i] EXCEPT !.downloaded = TRUE]
              /\ db[ev'.arg].summarized = FALSE
              /\ db'[ev'.arg].summarized = FALSE
              /\ (DOMAIN db'[ev'.arg]) \cap SummaryKeys = {})
        /\ (ev'.out[2] = "ok" =>
              \E t \in DOMAIN db :
                 /\ db[t].id = db[ev'.arg].id
                 /\ db'[t].summarized = TRUE
                 /\ SummaryKeys \subseteq DOMAIN db'[t]
                 /\ \A i \in (DOMAIN db) \ {t} :
                       SummaryPart(db'[i]) = SummaryPart(db[i]))
        /\ \A i \in DOMAIN db' :
              (DOMAIN db'[i]) \cap SummaryKeys \in {{}, SummaryKeys}]_vars

C5_Witness ==
    /\ ev.op = "summ"
    /\ ev.out = <<"fallback", "fail">>
    /\ db[ev.arg].downloaded = TRUE
    /\ db[ev.arg].summarized = FALSE

\* C6: a record with summarized = false carries no summary field.
C6_UnsummarizedHasNoSummary ==
    \A i \in DOMAIN db :
        db[i].summarized = FALSE => (DOMAIN db[i]) \cap SummaryKeys = {}

C6_Witness ==
    /\ ev.op = "reset"
    /\ ev.out.count > 0
    /\ \E i \in DOMAIN db : db[i].summarized = FALSE /\ db[i].downloaded

\* C7: summarize_records never leaves by an error: no failure on one record
\* aborts the batch.
C7_NeverAborts == sm.pc # "raised"

\* C8: no record that is summarized is in the batch assemble_records
\* selected, neither when it is selected nor when summarize_records comes to
\* it.
C8_SummarizedNotRedone ==
    sm.pc = "run" =>
        \A k \in DOMAIN sm.batch : db[sm.batch[k]].summarized = FALSE

C8_Witness ==
    /\ ev.op = "assemble_records"
    /\ sm.batch # <<>>
    /\ \E i \in DOMAIN db :
          /\ db[i].summarized
          /\ db[i].published.local >= ev.arg.local

InWindow(r, w) == r.published.local >= w.local

\* C9: reset_summarized(W) changes exactly the records published at or
\* after W that are summarized: on them summarized becomes false, every
\* field derived from the summary is removed (the six summary fields, and
\* relevant and projects) and no other field changes value; all other
\* records are unchanged; the count returned is the number of records
\* changed.
C9_ResetFrame ==
    [][ev'.op = "reset" =>
        /\ Len(db') = Len(db)
        /\ \A i \in DOMAIN db :
              IF InWindow(db[i], ev'.arg) /\ db[i].summarized = TRUE
              THEN /\ db'[i].summarized = FALSE
                   /\ (DOMAIN db'[i]) \cap SummaryKeys = {}
                   /\ DOMAIN db'[i] = (DOMAIN db[i]) \ ResetKeys
                   /\ \A k \in (DOMAIN db'[i]) \ {"summarized"} :
                         db'[i][k] = db[i][k]
              ELSE db'[i] = db[i]
        /\ ev'.out.count = Cardinality({i \in DOMAIN db : db'[i] # db[i]})
        /\ ev'.out.count =
              Cardinality({i \in DOMAIN db :
                InWindow(db[i], ev'.arg) /\ db[i].summarized = TRUE})]_vars

C9_Witness ==
    /\ ev.op = "reset"
    /\ ev.out.count = 1
    /\ \E i \in DOMAIN db : db[i].summarized /\ ~InWindow(db[i], ev.arg)
    /\ \E i \in DOMAIN db : ~db[i].summarized /\ InWindow(db[i], ev.arg)

\* C10 as stated: reset_summarized leaves relevant and projects as they
\* were on the records it resets.
C10_ResetKeepsClassification ==
    [][ev'.op = "reset" =>
        \A i \in DOMAIN db :
            \A k \in {"relevant", "projects"} :
                Has(db[i], k) => (Has(db'[i], k) /\ db'[i][k] = db[i][k])]_vars

\* C10 amended: reset_summarized removes relevant and projects from every
\* record it resets, and leaves them as they were on every other record.
C10_ResetClearsClassification ==
    [][ev'.op = "reset" =>
        \A i \in DOMAIN db :
            IF InWindow(db[i], ev'.arg) /\ db[i].summarized = TRUE
            THEN ~Has(db'[i], "relevant") /\ ~Has(db'[i], "projects")
            ELSE \A k \in {"relevant", "projects"} :
                    /\ Has(db'[i], k) = Has(db[i], k)
                    /\ (Has(db[i], k) => db'[i][k] = db[i][k])]_vars

C10_Witness ==
    /\ ev.op = "reset"
    /\ ev.out.cleared = {"relevant", "projects"}
    /\ \A i \in DOMAIN db : ~Has(db[i], "projects")

\* C11: relevant is only ever set after summarized = true: every record
\* that carries relevant is summarized, and a record gains relevant only in
\* a relevance pass and only when its summarized is true at the write.
C11_RelevantAfterSummarized ==
    /\ [](\A i \in DOMAIN db :
            Has(db[i], "relevant") => db[i].summarized = TRUE)
    /\ [][\A i \in DOMAIN db :
            (IF i \in DOMAIN db'
             THEN ~Has(db[i], "relevant") /\ Has(db'[i], "relevant")
             ELSE FALSE)
            => (ev'.op = "classify_relevance" /\ db[i].summarized = TRUE)]_vars

C11_Witness ==
    /\ ev.op = "classify_relevance"
    /\ ev.out.calls # {}
    /\ \E i \in DOMAIN db : db[i].summarized = FALSE
    /\ \E i \in DOMAIN db : Has(db[i], "relevant")

C13_UniqueIdAndUrl ==
    \A i, j \in DOMAIN db :
        (db[i].id = db[j].id \/ db[i].url = db[j].url) => i = j

\* C14: every stored record has published in the normalized UTC form, the
\* instant the feed gave (15:00+03:00 is stored as 12:00Z); no operation
\* rewrites it; and comparing it as a string with a window is comparing the
\* two instants.
C14_PublishedNormalized ==
    /\ [](\A i \in DOMAIN db :
            /\ db[i].published.off = 0
            /\ \E e \in EntryPool :
                  /\ db[i].url = feed_record(e).url
                  /\ db[i].published.local = e.published.local - e.published.off
            /\ \A w \in Windows :
                  str_ge(db[i].published, w) <=>
                      (db[i].published.local - db[i].published.off
                          >= w.local - w.off))
    /\ [][\A i \in DOMAIN db :
            IF i \in DOMAIN db' THEN db'[i].published = db[i].published
            ELSE FALSE]_vars

C14_Witness ==
    \E i \in DOMAIN db :
        /\ db[i].url = feed_record(E1).url
        /\ E1.published = [local |-> 3, off |-> 1]
        /\ db[i].published = Z(2)
        /\ db[i].summarized = TRUE
        /\ Has(db[i], "relevant")

\* C15: after every insert, update or reset_summarized call the persisted
\* file holds exactly the in-memory records, so a new PaperDB opened on the
\* path has the same records in the same order; reset_summarized writes the
\* file at most once per call, and once when it changed a record.
C15_FileHoldsMemory ==
    /\ [](dbFile = db)
    /\ [][ev'.op = "open" => db' = db]_vars
    /\ [][ev'.op = "reset" =>
            /\ ev'.out.writes <= 1
            /\ (ev'.out.count > 0 => ev'.out.writes = 1)]_vars

C15_Witness ==
    /\ ev.op = "reset"
    /\ ev.out.count = 2
    /\ ev.out.writes = 1
    /\ dbFile = db

\* C16: find returns exactly the records that satisfy every predicate
\* supplied (published at or after the window, the boundary included;
\* summarized equal to the value asked), in insertion order, and all the
\* records when no predicate is supplied.
C16_FindExact ==
    [][ev'.op = "find" =>
        LET res == ev'.out
            pg == ev'.arg.published_gte
            sd == ev'.arg.summarized
        IN /\ \A k \in 1..(Len(res) - 1) : res[k] < res[k + 1]
           /\ {res[k] : k \in DOMAIN res} =
                 {i \in DOMAIN db :
                    /\ (IF pg = <<>> THEN TRUE
                        ELSE db[i].published.local >= pg[1].local)
                    /\ (IF sd = <<>> THEN TRUE
                        ELSE db[i].summarized = sd[1])}
           /\ ((pg = <<>> /\ sd = <<>>) =>
                 res = [i \in DOMAIN db |-> i])]_vars

C16_Witness ==
    /\ ev.op = "find"
    /\ ev.arg.published_gte # <<>>
    /\ ev.arg.summarized = <<TRUE>>
    /\ Len(ev.out) = 2
    /\ Len(db) = 3
    /\ \E k \in DOMAIN ev.out :
          db[ev.out[k]].published = ev.arg.published_gte[1]

\* C17: update on an id the store does not hold returns False and changes
\* neither the records nor the file; on an id it holds it returns True,
\* merges the fields into one record with that id and leaves every other
\* record as it was.
C17_UpdateFrame ==
    [][ev'.op = "update" =>
        LET paper_id == ev'.arg.id
            fields == ev'.arg.fields
            hits == {i \in DOMAIN db : db[i].id = paper_id}
        IN IF hits = {}
           THEN ev'.out = FALSE /\ db' = db /\ dbFile' = dbFile
           ELSE /\ ev'.out = TRUE
                /\ Len(db') = Len(db)
                /\ \E t \in hits :
                      /\ DOMAIN db'[t] = (DOMAIN db[t]) \cup (DOMAIN fields)
                      /\ \A k \in DOMAIN fields : db'[t][k] = fields[k]
                      /\ \A k \in (DOMAIN db[t]) \ (DOMAIN fields) :
                            db'[t][k] = db[t][k]
                      /\ \A i \in (DOMAIN db) \ {t} : db'[i] = db[i]]_vars

C17_Witness ==
    /\ ev.op = "update"
    /\ ev.out = FALSE
    /\ ev.arg.id = UnknownId
    /\ Len(db) >= 2
    /\ dbFile = db

\* C18: for every record the relevance pass visits whose tag is general,
\* relevant = false is stored and the model is not called.
C18_GeneralIsIrrelevant ==
    [][ev'.op = "classify_relevance" =>
        \A k \in DOMAIN ev'.arg :
            LET i == ev'.arg[k]
            IN (/\ ~Has(db[i], "relevant")
                /\ Has(db[i], "tag")
                /\ db[i].tag = "general")
               => /\ i \notin ev'.out.calls
                  /\ Has(db'[i], "relevant")
                  /\ db'[i].relevant = FALSE]_vars

C18_Witness ==
    /\ ev.op = "classify_relevance"
    /\ ev.out.calls # {}
    /\ \E k \in DOMAIN ev.arg :
          /\ ev.arg[k] \notin ev.out.calls
          /\ db[ev.arg[k]].tag = "general"
          /\ db[ev.arg[k]].relevant = FALSE

\* C19: relevance fails open: for every visited record whose tag is not
\* general the model is called and its verdict stored, true being stored
\* when the call raised or its answer could not be read; the pass goes on
\* to the end, so every record it was given carries relevant afterwards.
C19_RelevanceFailsOpen ==
    [][ev'.op = "classify_relevance" =>
        /\ \A k \in DOMAIN ev'.arg :
              LET i == ev'.arg[k]
              IN (/\ ~Has(db[i], "relevant")
                  /\ Has(db[i], "tag")
                  /\ db[i].tag # "general")
                 => /\ i \in ev'.out.calls
                    /\ Has(db'[i], "relevant")
                    /\ db'[i].relevant =
                          (CASE ev'.out.answers[i] = "true" -> TRUE
                             [] ev'.out.answers[i] = "false" -> FALSE
                             [] ev'.out.answers[i] = "error" -> TRUE)
        /\ \A k \in DOMAIN ev'.arg : Has(db'[ev'.arg[k]], "relevant")]_vars

C19_Witness ==
    /\ ev.op = "classify_relevance"
    /\ \E i, j \in ev.out.calls :
          /\ i < j
          /\ ev.out.answers[i] = "error"
          /\ db[i].relevant = TRUE
          /\ ev.out.answers[j] = "false"
          /\ db[j].relevant = FALSE

\* C20: each classification pass is idempotent: a record that carries
\* relevant (projects) is not sent to the model and is not written by the
\* relevance (project) pass, and a second pass over the same records,
\* whatever the model answers, leaves the store as the first left it.
C20_PassesIdempotent ==
    /\ [][ev'.op = "classify_relevance" =>
            \A i \in DOMAIN db :
                Has(db[i], "relevant") =>
                    (i \notin ev'.out.calls /\ db'[i] = db[i])]_vars
    /\ [][ev'.op = "classify_projects" =>
            \A i \in DOMAIN db :
                Has(db[i], "projects") =>
                    (i \notin ev'.out.calls /\ db'[i] = db[i])]_vars
    /\ [](ev.op = "classify_relevance" =>
            \A answers \in [Range(ev.arg) -> RelevanceAnswers] :
                /\ classify_relevance(db, ev.arg, answers) = db
                /\ relevance_calls(db, ev.arg, answers) = {})
    /\ [](ev.op = "classify_projects" =>
            \A answers \in [Range(ev.arg) -> ProjectAnswers] :
                /\ classify_project_relevance(db, ev.arg, answers) = db
                /\ project_calls(db, ev.arg, answers) = {})

C20_Witness ==
    /\ ev.op = "classify_projects"
    /\ ev.arg # <<>>
    /\ ev.out.calls = {}
    /\ \E i \in DOMAIN db : Has(db[i], "projects") /\ db[i].projects # <<>>

\* C21: after the project pass has called the model for a record, its
\* projects field is the list of the ids the model returned that are in the
\* catalog, in the order returned, and the empty list when the call or the
\* reading of its answer failed.
C21_ProjectsFromCatalog ==
    [][ev'.op = "classify_projects" =>
        \A i \in ev'.out.calls :
            /\ Has(db'[i], "projects")
            /\ \A n \in DOMAIN db'[i].projects :
                  db'[i].projects[n] \in ProjectIds
            /\ db'[i].projects =
                  (IF ev'.out.answers[i] = <<"error">> THEN <<>>
                   ELSE SelectSeq(ev'.out.answers[i],
                                  LAMBDA p : p \in ProjectIds))]_vars

C21_Witness ==
    /\ ev.op = "classify_projects"
    /\ \E i, j \in ev.out.calls :
          /\ ev.out.answers[i] = <<"bogus", "p1">>
          /\ db[i].projects = <<"p1">>
          /\ ev.out.answers[j] = <<"error">>
          /\ db[j].projects = <<>>

\* C22: when the answer carries affiliations and the record has authors,
\* the affiliations are replaced by the empty list when fewer than half of
\* the authors' distinct surnames occur, whatever the case of the letters,
\* in the first 3000 characters of the text, and are kept as they are when
\* half of them or more do; they are kept as returned when authors is empty
\* (or holds no name).
C22_AffiliationsValidated ==
    ev.op = "affiliations" =>
        LET names == {n \in DOMAIN ev.arg.authors : ev.arg.authors[n] # <<>>}
            surnames ==
                {lower(ev.arg.authors[n][Len(ev.arg.authors[n])]) : n \in names}
            found == {x \in surnames : \E w \in ev.arg.text : lower(w) = x}
        IN ev.out =
              (IF ev.arg.authors = <<>> \/ surnames = {}
               THEN ev.arg.affiliations
               ELSE IF 2 * Cardinality(found) < Cardinality(surnames)
                    THEN <<>>
               ELSE ev.arg.affiliations)

C22_Witness ==
    /\ ev.op = "affiliations"
    /\ ev.arg.authors =
          <<<<"Alice", "Smith">>, <<"Bob", "SMITH">>, <<"Carol", "Jones">>>>
    /\ ev.arg.text = {"Smith"}
    /\ ev.arg.affiliations = <<"MIT">>
    /\ ev.out = <<"MIT">>

\* C23: whatever the answer gives as interest_score, the record is
\* summarized and its interest_score is an integer of 1..10: the value
\* clamped when it is a number, 5 when it is missing or not a number.
C23_ScoreNeverFailsRecord ==
    ev.op = "summarize_one" =>
        /\ ev.out.ok
        /\ ev.out.fields.interest_score \in 1..10
        /\ IF ~Has(ev.arg, "interest_score") THEN
               ev.out.fields.interest_score = 5
           ELSE IF ev.arg.interest_score.t \in {"int", "float", "str"} THEN
               ev.out.fields.interest_score =
                   Max({1, Min({10, ev.arg.interest_score.v})})
           ELSE IF ev.arg.interest_score.t \in {"text", "null", "nan"} THEN
               ev.out.fields.interest_score = 5
           ELSE TRUE


\* the records the publication rule names: published inside the window,
\* summarized, and relevant unless include_all
ShareSelected(pull_window, include_all) ==
    {i \in DOMAIN db :
        /\ str_ge(db[i].published, pull_window)
        /\ IF Has(db[i], "summarized") THEN db[i].summarized = TRUE ELSE FALSE
        /\ \/ include_all
           \/ IF Has(db[i], "relevant") THEN db[i].relevant = TRUE
              ELSE FALSE}

\* C24: when share_results publishes, the records in the markdown and in
\* the HTML are exactly those with published >= pull_window and
\* summarized = true, restricted to relevant = true unless include_all;
\* no other record ever appears in an artifact.
C24_PublishesSelection ==
    ev.op = "share" =>
        LET sel == ShareSelected(ev.arg.pull_window, ev.arg.include_all)
            recs == ev.out.records
        IN /\ Range(recs) \subseteq sel
           /\ ev.out.returned =>
                 /\ Range(recs) = sel
                 /\ Len(recs) = Cardinality(sel)
                 /\ ev.out.markdown =
                       [k \in DOMAIN recs |-> format_record(db[recs[k]], "md")]
                 /\ ev.out.html =
                       [k \in DOMAIN recs |-> format_record(db[recs[k]], "html")]
           /\ (sel # {} /\ \A i \in sel : formattable(db[i]))
                 => ev.out.returned

C24_Witness ==
    /\ ev.op = "share"
    /\ ev.out.returned
    /\ ~ev.arg.include_all
    /\ \E i \in DOMAIN db :
          /\ db[i].summarized = TRUE
          /\ str_ge(db[i].published, ev.arg.pull_window)
          /\ i \notin Range(ev.out.records)
    /\ \E i \in DOMAIN db :
          \/ ~str_ge(db[i].published, ev.arg.pull_window)
          \/ db[i].summarized = FALSE

\* the score a record is ordered by: interest_score, 5 when it has none
share_score(r) == IF Has(r, "interest_score") THEN r.interest_score ELSE 5

\* C25: the records of a publication are rendered in descending
\* interest_score, a record without a score counting as 5.
C25_DescendingScore ==
    (ev.op = "share" /\ ev.out.returned) =>
        \A k \in 1..(Len(ev.out.records) - 1) :
            share_score(db[ev.out.records[k]])
                >= share_score(db[ev.out.records[k + 1]])

\* C26: share_results returns False and writes no file when no record is
\* selected or the formatting of any selected record fails; when files are
\* written, the markdown and the HTML of every selected record exist.
C26_AllOrNothing ==
    ev.op = "share" =>
        LET sel == ShareSelected(ev.arg.pull_window, ev.arg.include_all)
        IN /\ (sel = {} \/ \E i \in sel : ~formattable(db[i]))
                 => (~ev.out.returned /\ ev.out.written = {})
           /\ ev.out.written # {} =>
                 /\ Len(ev.out.markdown) = Cardinality(sel)
                 /\ Len(ev.out.html) = Cardinality(sel)
           /\ ~ev.out.returned => ev.out.written = {}

C26_Witness ==
    /\ ev.op = "share"
    /\ ~ev.out.returned
    /\ ev.out.written = {}
    /\ LET sel == ShareSelected(ev.arg.pull_window, ev.arg.include_all)
       IN /\ \E i \in sel : ~formattable(db[i])
          /\ \E i \in sel : formattable(db[i])

C28_FailedFetchSkipped ==
    [][ev'.op = "download_papers" =>
          LET ok == ev'.out
              failed == ev'.arg \ ev'.out
          IN /\ written(ok) \subseteq disk'
             /\ \A i \in DOMAIN db :
                   db[i].url \in ok => db'[i].downloaded = TRUE
             /\ \A i \in DOMAIN db :
                   db[i].url \in failed =>
                       db'[i].downloaded = db[i].downloaded]_vars

\* position of the first item of a list with the url
FirstWithUrl(results, url) ==
    Min({k \in DOMAIN results : results[k].url = url})

\* C29: assemble_feeds returns one candidate per url of the payloads, the
\* first occurrence of each url, in the order the urls were first seen.
C29_ReturnedDeduplicated ==
    ev.op = "assemble_feeds" =>
        LET all == processed(ev.arg)
            ret == ev.out
        IN /\ result_urls(ret) = result_urls(all)
           /\ \A j, k \in DOMAIN ret : ret[j].url = ret[k].url => j = k
           /\ \A k \in DOMAIN ret :
                 ret[k] = all[FirstWithUrl(all, ret[k].url)]
           /\ \A j, k \in DOMAIN ret :
                 j < k => FirstWithUrl(all, ret[j].url)
                             < FirstWithUrl(all, ret[k].url)

C29_Witness ==
    /\ ev.op = "assemble_feeds"
    /\ Len(ev.arg) = 2
    /\ Len(ev.out) = 2
    /\ \E j, k \in DOMAIN processed(ev.arg) :
          /\ j < k
          /\ processed(ev.arg)[j].url = processed(ev.arg)[k].url
          /\ processed(ev.arg)[j] # processed(ev.arg)[k]

\* C30: prune_feeds returns, in the order given, exactly the candidates
\* whose published time in UTC is at or after pull_window and whose
\* <id>.pdf is not in the papers directory.
C30_PruneExact ==
    ev.op = "prune_feeds" =>
        LET feeds == ev.arg.feeds
            w == ev.arg.pull_window
            keep == {k \in DOMAIN feeds :
                        /\ feeds[k].published.local - feeds[k].published.off
                              >= w.local
                        /\ pdf_name(feeds[k]) \notin disk}
        IN /\ Len(ev.out) = Cardinality(keep)
           /\ \A n \in DOMAIN ev.out :
                 \E k \in keep :
                    /\ ev.out[n] = feeds[k]
                    /\ Cardinality({j \in keep : j <= k}) = n

C30_Witness ==
    /\ ev.op = "prune_feeds"
    /\ Len(ev.arg.feeds) >= 2
    /\ Len(ev.out) = 1
    /\ \E k \in DOMAIN ev.arg.feeds :
          /\ pdf_name(ev.arg.feeds[k]) \in disk
          /\ in_window(ev.arg.feeds[k].published, ev.arg.pull_window)
    /\ \E k \in DOMAIN ev.arg.feeds :
          /\ ev.arg.feeds[k].published.local - ev.arg.feeds[k].published.off
                = ev.arg.pull_window.local
          /\ ev.out = <<ev.arg.feeds[k]>>


\* the number of ".pdf" a string ends with
RECURSIVE PdfSuffixes(_)
PdfSuffixes(s) ==
    IF endswith(s, ".pdf") THEN 1 + PdfSuffixes(SubSeq(s, 1, Len(s) - 1))
    ELSE 0

\* C31: _filename_from_url returns the last path segment as it is when the
\* url ends in .pdf and with one .pdf appended otherwise; the url built
\* for a feed entry ends in .pdf exactly once.
C31_OnePdfSuffix ==
    /\ ev.op = "filename" =>
          LET name == split_last(ev.arg, <<"/">>)
          IN /\ ev.out = IF endswith(ev.arg, ".pdf") THEN name
                         ELSE name \o <<".pdf">>
             /\ PdfSuffixes(ev.out) = 1
    /\ ev.op = "feed_record" => PdfSuffixes(ev.out.url) = 1

C31_Witness ==
    /\ ev.op = "filename"
    /\ endswith(ev.arg, ".pdf")
    /\ Len(ev.arg) > Len(ev.out)
    /\ ev.out = <<"2601.00001v1", ".pdf">>


\* C32: when the document of a record is not on disk and no readable
\* document is there after the fallback download, the record is skipped
\* and left exactly as it was, its downloaded flag included.
C32_FailedFallbackLeavesRecord ==
    [][(/\ ev'.op = "summ"
        /\ ev'.out[1] \in {"missing", "corrupt"}
        /\ pdf_name(db[ev'.arg]) \notin disk)
          => db'[ev'.arg] = db[ev'.arg]]_vars


\* a page that ends the pagination: fewer entries than the page size, or
\* start index plus entries reaching the reported total
EndsPagination(feed, max_results) ==
    \/ Len(feed.entries) < max_results
    \/ feed.startindex + Len(feed.entries) >= feed.totalresults

\* C33: the loop stops after the first page that is short or reaches the
\* reported total and not before, and the payload of every fetched page,
\* the last one included, is appended to the results.
C33_StopsAtFirstFinalPage ==
    /\ [](es.pc \in {"page", "complete"} =>
            \A k \in DOMAIN es.results :
                EndsPagination(es.results[k], es.item.max_results)
                    <=> (k = Len(es.results) /\ es.pc = "complete"))
    /\ [][ev'.op = "page" =>
            /\ ev'.out = page_response(es.src, es.start, es.item.max_results)
            /\ es'.results = Append(es.results, ev'.out)]_vars

C33_Witness ==
    /\ es.pc = "complete"
    /\ Len(es.results) = 2
    /\ Len(es.results[2].entries) < es.item.max_results
    /\ es.results[2].startindex + Len(es.results[2].entries)
          < es.results[2].totalresults


\* C40: against a source that reports a fixed total and echoes the
\* requested start index, the requested offset grows by the page size on
\* every page that is not the last, and the loop of a query ends after
\* finitely many requests.
C40_PaginationTerminates ==
    /\ [][(ev'.op = "page" /\ es.src.echo /\ es'.pc = "page") =>
            /\ es'.start = es.start + es.item.max_results
            /\ es'.start > es.start]_vars
    /\ ((es.pc = "page" /\ es.src.echo) ~> (es.pc = "complete"))

C40_Witness ==
    /\ es.pc = "complete"
    /\ es.src.echo
    /\ Len(es.results) >= 3
    /\ es.start >= 2


\* C34: the cache entry of a query is written, in memory and in the file,
\* only by the page that ends its pagination; while the query is being
\* paginated and when one of its requests fails, its entry is the one it
\* had when its loop began (or it has none).
C34_EntryWrittenAtCompletion ==
    /\ [][LET q == es.params[es.i].search_query
              feed == response(q, es.start, es.params[es.i].max_results)
          IN /\ ev'.op \in {"issue", "raise"} =>
                   (cacheFile' = cacheFile /\ es'.state = es.state)
             /\ ev'.op = "page" =>
                   IF EndsPagination(feed, es.params[es.i].max_results)
                   THEN /\ cacheFile' = es'.state
                        /\ es'.state[q] = es.now
                   ELSE (cacheFile' = cacheFile /\ es'.state = es.state)]_vars
    /\ [](es.pc \in {"page", "raised"} =>
            LET q == es.params[es.i].search_query
                prior == \E j \in 1..(es.i - 1) :
                            es.params[j].search_query = q
            IN /\ cacheFile = es.state
               /\ IF q \in DOMAIN cacheFile
                  THEN IF q \in DOMAIN es.loaded /\ ~prior
                       THEN cacheFile[q] = es.loaded[q]
                       ELSE IF prior THEN TRUE ELSE FALSE
                  ELSE q \notin DOMAIN es.loaded)

C34_Witness ==
    /\ es.pc = "raised"
    /\ es.results # <<>>
    /\ es.results[Len(es.results)].q = es.params[es.i].search_query
    /\ es.params[es.i].search_query \in DOMAIN cacheFile
    /\ cacheFile[es.params[es.i].search_query] # es.now


\* C39: in a call with force = false a query string is issued at most
\* once, however often it occurs in params and for cache_hours 0 as well:
\* no request is issued for a query that already has a payload in the
\* results of the call, its later occurrences are skipped.
C39_IssuedOncePerCall ==
    [][LET q == es.params[es.i].search_query
           done == \E k \in DOMAIN es.results : es.results[k].q = q
       IN (~es.force /\ es.pc = "loop" /\ es.i <= Len(es.params) /\ done) =>
             /\ ev'.op # "issue"
             /\ (es'.i # es.i => (ev'.op = "skip" /\ es'.results = es.results))
      ]_vars

C39_Witness ==
    /\ ev.op = "skip"
    /\ ~es.force
    /\ es.cutoff = es.now
    /\ ev.arg \notin DOMAIN es.loaded
    /\ es.results # <<>>
    /\ es.results[Len(es.results)].q = ev.arg


\* C37: every record summarize_records marks summarized has a tag among
\* security, cyber and general, whatever the model answered.
C37_TagInVocabulary ==
    (ev.op = "summarize_one" /\ ev.out.ok) =>
        ev.out.fields.tag \in {"security", "cyber", "general"}


\* the fields captured when a record is created
MetaKeys == {"id", "url", "title", "authors", "published"}

\* C36: no step of ingestion, download, summarization, classification or
\* reset removes a record or moves it, and the id, url, title, authors and
\* published of a stored record stay as they were; an entry whose url is
\* stored does not overwrite them.
C36_LifecycleFrame ==
    [][/\ Len(db') >= Len(db)
       /\ \A i \in DOMAIN db :
             \A k \in MetaKeys \cap DOMAIN db[i] :
                 /\ k \in DOMAIN db'[i]
                 /\ db'[i][k] = db[i][k]]_vars

C36_Witness ==
    /\ ev.op = "assemble"
    /\ \E i \in DOMAIN db :
          /\ db[i].summarized
          /\ Has(db[i], "relevant")
          /\ db[i].url \in ev.arg
          /\ db[i].published # E1.published
          /\ db[i].id = feed_record(E1).id


\* the records of the store that are marked downloaded
Downloaded(data) ==
    {i \in DOMAIN data :
        IF Has(data[i], "downloaded") THEN data[i].downloaded = TRUE
        ELSE FALSE}

\* C35: download_papers writes and updates only after every fetch has
\* settled, one update at a time; whatever the order in which the fetches
\* completed, the store it leaves is the same, and the records it marks
\* downloaded are exactly those whose fetch returned a response.
C35_OrderIndependent ==
    [][ev'.op = "download_papers" =>
          /\ \A order \in Orderings(ev'.out) :
                store_in_order(db, order) = db'
          /\ Downloaded(db') =
                Downloaded(db) \cup {i \in DOMAIN db : db[i].url \in ev'.out}
      ]_vars


\* C38: when the response for the url of a record made by process_feed is
\* stored, the file written is <id>.pdf for the id of that record, the one
\* summarize_records opens, and that record is marked downloaded.
C38_DownloadReachesRecord ==
    ev.op = "download_one" =>
        /\ ev.out.files = {pdf_name(ev.arg.record)}
        /\ ev.out.data[1].downloaded = TRUE

====
